---- MODULE Spec2Model ----
(***************************************************************************)
(* Model of twap-from-file.cpp: the OrderBook class (order->price and      *)
(* price->count maps with max_price), the TWAP class (incremental          *)
(* time-weighted average) and the line loop of main() that drives them.    *)
(*                                                                         *)
(* A double is modelled as an exact rational or NaN; the rounding of the   *)
(* floating-point operations is not modelled (the properties below are     *)
(* statements in exact arithmetic).  Times are non-negative ints           *)
(* (milliseconds since start of trading, source lines 7-11) kept far below *)
(* the width of int, so no int operation of the model overflows.           *)
(***************************************************************************)
EXTENDS Integers, Sequences, FiniteSets, TLC

\* ---------------------------------------------------------------- bounds
MaxOrderId == 3     \* order ids are 1..MaxOrderId
NumPrices  == 3     \* prices are 10, 11, ..., 9 + NumPrices
MaxTime    == 3     \* timestamps given to next_price are 0..MaxTime
NumSignalPrices == 2 \* defined prices given to next_price: 10, ..., 9 + NumSignalPrices
MaxCalls   == 4     \* longest sequence of next_price calls explored
MaxLines   == 3     \* longest input file explored by main
MaxLineTime    == 1 \* timestamps in the lines of the file are 0..MaxLineTime
MaxLineOrderId == 2 \* order ids in the lines are 1..MaxLineOrderId
NumLinePrices  == 2 \* prices in the lines are 10, ..., 9 + NumLinePrices

\* ---------------------------------------------------------------- double
\* A double: NaN, or the rational num/den in lowest terms with den > 0.
NaN == [nan |-> TRUE, num |-> 0, den |-> 1]

isnan(x) == x.nan

Abs(n) == IF n < 0 THEN -n ELSE n

RECURSIVE GCD(_, _)
GCD(a, b) == IF b = 0 THEN a ELSE GCD(b, a % b)

\* the rational n/d (d # 0) in lowest terms
Rat(n, d) ==
    LET g == GCD(Abs(n), Abs(d))
        s == IF d < 0 THEN -1 ELSE 1
    IN  [nan |-> FALSE, num |-> s * (n \div g), den |-> s * (d \div g)]

\* conversion int -> double
Dbl(n) == [nan |-> FALSE, num |-> n, den |-> 1]

\* x / k, x * k for a double x and an int k converted to double; x + y.
\* NaN operands give NaN.  Every call site divides by a positive k.
DDiv(x, k) == IF x.nan \/ k = 0 THEN NaN ELSE Rat(x.num, x.den * k)

DMul(x, k) == IF x.nan THEN NaN ELSE Rat(x.num * k, x.den)

DAdd(x, y) ==
    IF x.nan \/ y.nan THEN NaN
    ELSE Rat(x.num * y.den + y.num * x.den, x.den * y.den)

\* operator< of double, the ordering of map<double, int>
DLess(x, y) == x.num * y.den < y.num * x.den

\* ---------------------------------------------------------------- std::map
\* A map is a function whose DOMAIN is its key set.
EmptyMap == [k \in {} |-> 0]

MapPut(m, k, v) == [j \in DOMAIN m \cup {k} |-> IF j = k THEN v ELSE m[j]]

MapErase(m, k) == [j \in DOMAIN m \ {k} |-> m[j]]

\* ---------------------------------------------------------------- OrderBook
\* ub records that erase_order dereferenced the end() iterator of the
\* price->count map (undefined behaviour; the maps mean nothing afterwards).
OrderBook ==
    [order_price_map_ |-> EmptyMap, price_count_map_ |-> EmptyMap, ub |-> FALSE]

\* insert_order without the early return on an existing id
insert_order_no_return(b, order_id, price) ==
    [b EXCEPT
        !.order_price_map_ =
            IF order_id \in DOMAIN @ THEN @ ELSE MapPut(@, order_id, price),
        !.price_count_map_ =
            IF price \in DOMAIN @
            THEN [@ EXCEPT ![price] = @ + 1]
            ELSE MapPut(@, price, 1)]

\* insert_order storing through operator[]: an existing id gets the new price
insert_order_overwrite(b, order_id, price) ==
    IF order_id \in DOMAIN b.order_price_map_
    THEN [b EXCEPT !.order_price_map_ = MapPut(@, order_id, price)]
    ELSE [b EXCEPT
            !.order_price_map_ = MapPut(@, order_id, price),
            !.price_count_map_ =
                IF price \in DOMAIN @
                THEN [@ EXCEPT ![price] = @ + 1]
                ELSE MapPut(@, price, 1)]

insert_order(b, order_id, price) ==
    IF order_id \in DOMAIN b.order_price_map_
    THEN b
    ELSE [b EXCEPT
            !.order_price_map_ = MapPut(@, order_id, price),
            !.price_count_map_ =
                IF price \in DOMAIN @
                THEN [@ EXCEPT ![price] = @ + 1]
                ELSE MapPut(@, price, 1)]

\* erase_order removing the price entry only when its count is below zero
erase_order_keep_zero(b, order_id) ==
    IF order_id \notin DOMAIN b.order_price_map_
    THEN b
    ELSE LET price == b.order_price_map_[order_id]
             opm   == MapErase(b.order_price_map_, order_id)
         IN  IF price \notin DOMAIN b.price_count_map_
             THEN [b EXCEPT !.order_price_map_ = opm, !.ub = TRUE]
             ELSE LET cnt == b.price_count_map_[price] - 1
                  IN  [b EXCEPT
                         !.order_price_map_ = opm,
                         !.price_count_map_ =
                             IF cnt < 0
                             THEN MapErase(@, price)
                             ELSE [@ EXCEPT ![price] = cnt]]

\* erase_order without the end() test on the order iterator
erase_order_unchecked(b, order_id) ==
    IF order_id \notin DOMAIN b.order_price_map_
    THEN [b EXCEPT !.ub = TRUE]
    ELSE LET price == b.order_price_map_[order_id]
             opm   == MapErase(b.order_price_map_, order_id)
         IN  IF price \notin DOMAIN b.price_count_map_
             THEN [b EXCEPT !.order_price_map_ = opm, !.ub = TRUE]
             ELSE LET cnt == b.price_count_map_[price] - 1
                  IN  [b EXCEPT
                         !.order_price_map_ = opm,
                         !.price_count_map_ =
                             IF cnt <= 0
                             THEN MapErase(@, price)
                             ELSE [@ EXCEPT ![price] = cnt]]

\* erase_order that leaves the order in the order->price map
erase_order_keep_order(b, order_id) ==
    IF order_id \notin DOMAIN b.order_price_map_
    THEN b
    ELSE LET price == b.order_price_map_[order_id]
         IN  IF price \notin DOMAIN b.price_count_map_
             THEN [b EXCEPT !.ub = TRUE]
             ELSE LET cnt == b.price_count_map_[price] - 1
                  IN  [b EXCEPT
                         !.price_count_map_ =
                             IF cnt <= 0
                             THEN MapErase(@, price)
                             ELSE [@ EXCEPT ![price] = cnt]]

erase_order(b, order_id) ==
    IF order_id \notin DOMAIN b.order_price_map_
    THEN b
    ELSE LET price == b.order_price_map_[order_id]
             opm   == MapErase(b.order_price_map_, order_id)
         IN  IF price \notin DOMAIN b.price_count_map_
             THEN [b EXCEPT !.order_price_map_ = opm, !.ub = TRUE]
             ELSE LET cnt == b.price_count_map_[price] - 1
                  IN  [b EXCEPT
                         !.order_price_map_ = opm,
                         !.price_count_map_ =
                             IF cnt <= 0
                             THEN MapErase(@, price)
                             ELSE [@ EXCEPT ![price] = cnt]]

\* max_price reading begin() instead of rbegin(): the least key
max_price_begin(b) ==
    IF DOMAIN b.price_count_map_ = {}
    THEN NaN
    ELSE CHOOSE k \in DOMAIN b.price_count_map_ :
            \A j \in DOMAIN b.price_count_map_ : ~DLess(j, k)

\* rbegin() of the price-ordered map: the greatest key
max_price(b) ==
    IF DOMAIN b.price_count_map_ = {}
    THEN NaN
    ELSE CHOOSE k \in DOMAIN b.price_count_map_ :
            \A j \in DOMAIN b.price_count_map_ : ~DLess(k, j)

\* ---------------------------------------------------------------- TWAP
\* constructor starting from a zero price instead of NaN
TWAP_zero_price ==
    [last_price_ |-> Dbl(0), last_time_ |-> 0, avg_price_ |-> NaN, total_time_ |-> 0]

TWAP ==
    [last_price_ |-> NaN, last_time_ |-> 0, avg_price_ |-> NaN, total_time_ |-> 0]

\* next_price weighting the elapsed interval by the new price
next_price_new_price(tw, time, price) ==
    IF ~isnan(tw.last_price_)
    THEN LET add_time == time - tw.last_time_
         IN  IF add_time < 0
             THEN tw
             ELSE LET new_total_time == tw.total_time_ + add_time
                      acc == IF tw.total_time_ > 0
                             THEN [tw EXCEPT
                                     !.avg_price_ =
                                         DAdd(DMul(DDiv(tw.avg_price_, new_total_time),
                                                   tw.total_time_),
                                              DMul(DDiv(price, new_total_time),
                                                   add_time)),
                                     !.total_time_ = new_total_time]
                             ELSE [tw EXCEPT
                                     !.avg_price_ = price,
                                     !.total_time_ = add_time]
                  IN  [acc EXCEPT !.last_price_ = price, !.last_time_ = time]
    ELSE [tw EXCEPT !.last_price_ = price, !.last_time_ = time]

\* next_price without the isnan test on the last price
next_price_no_isnan(tw, time, price) ==
    LET add_time == time - tw.last_time_
    IN  IF add_time < 0
        THEN tw
        ELSE LET new_total_time == tw.total_time_ + add_time
                 acc == IF tw.total_time_ > 0
                        THEN [tw EXCEPT
                                !.avg_price_ =
                                    DAdd(DMul(DDiv(tw.avg_price_, new_total_time),
                                              tw.total_time_),
                                         DMul(DDiv(tw.last_price_, new_total_time),
                                              add_time)),
                                !.total_time_ = new_total_time]
                        ELSE [tw EXCEPT
                                !.avg_price_ = tw.last_price_,
                                !.total_time_ = add_time]
             IN  [acc EXCEPT !.last_price_ = price, !.last_time_ = time]

\* next_price with the two weights of the blend exchanged
next_price_swapped_weights(tw, time, price) ==
    IF ~isnan(tw.last_price_)
    THEN LET add_time == time - tw.last_time_
         IN  IF add_time < 0
             THEN tw
             ELSE LET new_total_time == tw.total_time_ + add_time
                      acc == IF tw.total_time_ > 0
                             THEN [tw EXCEPT
                                     !.avg_price_ =
                                         DAdd(DMul(DDiv(tw.avg_price_, new_total_time),
                                                   add_time),
                                              DMul(DDiv(tw.last_price_, new_total_time),
                                                   tw.total_time_)),
                                     !.total_time_ = new_total_time]
                             ELSE [tw EXCEPT
                                     !.avg_price_ = tw.last_price_,
                                     !.total_time_ = add_time]
                  IN  [acc EXCEPT !.last_price_ = price, !.last_time_ = time]
    ELSE [tw EXCEPT !.last_price_ = price, !.last_time_ = time]

\* next_price that records the price but not the time
next_price_keep_time(tw, time, price) ==
    IF ~isnan(tw.last_price_)
    THEN LET add_time == time - tw.last_time_
         IN  IF add_time < 0
             THEN tw
             ELSE LET new_total_time == tw.total_time_ + add_time
                      acc == IF tw.total_time_ > 0
                             THEN [tw EXCEPT
                                     !.avg_price_ =
                                         DAdd(DMul(DDiv(tw.avg_price_, new_total_time),
                                                   tw.total_time_),
                                              DMul(DDiv(tw.last_price_, new_total_time),
                                                   add_time)),
                                     !.total_time_ = new_total_time]
                             ELSE [tw EXCEPT
                                     !.avg_price_ = tw.last_price_,
                                     !.total_time_ = add_time]
                  IN  [acc EXCEPT !.last_price_ = price]
    ELSE [tw EXCEPT !.last_price_ = price]

\* next_price dividing by the old total_time_ instead of new_total_time
next_price_old_total(tw, time, price) ==
    IF ~isnan(tw.last_price_)
    THEN LET add_time == time - tw.last_time_
         IN  IF add_time < 0
             THEN tw
             ELSE LET new_total_time == tw.total_time_ + add_time
                      acc == IF tw.total_time_ > 0
                             THEN [tw EXCEPT
                                     !.avg_price_ =
                                         DAdd(DMul(DDiv(tw.avg_price_, tw.total_time_),
                                                   tw.total_time_),
                                              DMul(DDiv(tw.last_price_, tw.total_time_),
                                                   add_time)),
                                     !.total_time_ = new_total_time]
                             ELSE [tw EXCEPT
                                     !.avg_price_ = tw.last_price_,
                                     !.total_time_ = add_time]
                  IN  [acc EXCEPT !.last_price_ = price, !.last_time_ = time]
    ELSE [tw EXCEPT !.last_price_ = price, !.last_time_ = time]

next_price(tw, time, price) ==
    IF ~isnan(tw.last_price_)
    THEN LET add_time == time - tw.last_time_
         IN  IF add_time < 0
             THEN tw
             ELSE LET new_total_time == tw.total_time_ + add_time
                      acc == IF tw.total_time_ > 0
                             THEN [tw EXCEPT
                                     !.avg_price_ =
                                         DAdd(DMul(DDiv(tw.avg_price_, new_total_time),
                                                   tw.total_time_),
                                              DMul(DDiv(tw.last_price_, new_total_time),
                                                   add_time)),
                                     !.total_time_ = new_total_time]
                             ELSE [tw EXCEPT
                                     !.avg_price_ = tw.last_price_,
                                     !.total_time_ = add_time]
                  IN  [acc EXCEPT !.last_price_ = price, !.last_time_ = time]
    ELSE [tw EXCEPT !.last_price_ = price, !.last_time_ = time]

avg_price(tw) == tw.avg_price_

\* ---------------------------------------------------------------- state
VARIABLES
    order_book,  \* the OrderBook object
    twap,        \* the TWAP object
    output,      \* the values written to cout, in order
    calls,       \* history: the <<time, price>> of every next_price call
    last_call,   \* history: the last method call, its arguments and the
                 \* object's state before it
    prev_call,   \* history: the method call before the last one (kept
                 \* when OrderBook or TWAP is used alone)
    line,        \* the line main read last
    nlines       \* number of lines main has read

vars == <<order_book, twap, output, calls, last_call, prev_call, line, nlines>>

OrderIds == 1..MaxOrderId
Prices   == {Dbl(9 + k) : k \in 1..NumPrices}
Times    == 0..MaxTime
SignalPrices == {Dbl(9 + k) : k \in 1..NumSignalPrices} \cup {NaN}

NoCall == [fn |-> "", args |-> <<>>, pre |-> <<>>]
NoLine == [time |-> <<>>, operation |-> <<>>, order_id |-> <<>>, price |-> <<>>]

Init ==
    /\ order_book = OrderBook
    /\ twap = TWAP
    /\ output = <<>>
    /\ calls = <<>>
    /\ last_call = NoCall
    /\ prev_call = NoCall
    /\ line = NoLine
    /\ nlines = 0

\* ------------------------------------------------- OrderBook used alone
InsertOrder(order_id, price) ==
    /\ order_book' = insert_order(order_book, order_id, price)
    /\ last_call' = [fn |-> "insert_order", args |-> <<order_id, price>>,
                     pre |-> order_book]
    /\ prev_call' = last_call
    /\ UNCHANGED <<twap, output, calls, line, nlines>>

EraseOrder(order_id) ==
    /\ order_book' = erase_order(order_book, order_id)
    /\ last_call' = [fn |-> "erase_order", args |-> <<order_id>>,
                     pre |-> order_book]
    /\ prev_call' = last_call
    /\ UNCHANGED <<twap, output, calls, line, nlines>>

NextOrderBook ==
    \/ \E order_id \in OrderIds, price \in Prices : InsertOrder(order_id, price)
    \/ \E order_id \in OrderIds : EraseOrder(order_id)

SpecOrderBook == Init /\ [][NextOrderBook]_vars

\* ------------------------------------------------- TWAP used alone
NextPrice(time, price) ==
    /\ Len(calls) < MaxCalls
    /\ twap' = next_price(twap, time, price)
    /\ calls' = Append(calls, <<time, price>>)
    /\ last_call' = [fn |-> "next_price", args |-> <<time, price>>, pre |-> twap]
    /\ prev_call' = last_call
    /\ UNCHANGED <<order_book, output, line, nlines>>

NextTWAP == \E time \in Times, price \in SignalPrices : NextPrice(time, price)

SpecTWAP == Init /\ [][NextTWAP]_vars

\* ------------------------------------------------- main
\* A line is the outcome of the four extractions main may attempt on it:
\* <<v>> when the extraction yields v, <<>> when it fails.
Extracted(S) == {<<v>> : v \in S}

\* The lines main is fed: every combination of extraction outcomes it can
\* tell apart (an extraction main does not attempt is left as <<>>).
LineTimes    == Extracted(0..MaxLineTime)
LineOrderIds == Extracted(1..MaxLineOrderId)
LinePrices   == Extracted({Dbl(9 + k) : k \in 1..NumLinePrices})

Lines ==
    [time : {<<>>}, operation : {<<>>}, order_id : {<<>>}, price : {<<>>}]
    \cup
    [time : LineTimes, operation : {<<>>}, order_id : {<<>>}, price : {<<>>}]
    \cup
    [time : LineTimes, operation : Extracted({"I", "E", "X"}),
     order_id : {<<>>}, price : {<<>>}]
    \cup
    [time : LineTimes, operation : Extracted({"I", "E", "X"}),
     order_id : LineOrderIds, price : {<<>>}]
    \cup
    [time : LineTimes, operation : {<<"I">>},
     order_id : LineOrderIds, price : LinePrices]

\* the loop body calling next_price with the maximum price read before the
\* line is applied to the order book
MainLoop_stale_max(l) ==
    /\ nlines < MaxLines
    /\ nlines' = nlines + 1
    /\ line' = l
    /\ IF \/ l.time = <<>>
          \/ l.operation = <<>>
          \/ l.order_id = <<>>
          \/ (l.operation = <<"I">> /\ l.price = <<>>)
       THEN UNCHANGED <<order_book, twap, output, calls>>      \* continue
       ELSE LET time      == l.time[1]
                operation == l.operation[1]
                order_id  == l.order_id[1]
                book == IF operation = "I"
                        THEN insert_order(order_book, order_id, l.price[1])
                        ELSE IF operation = "E"
                             THEN erase_order(order_book, order_id)
                             ELSE order_book
                tw == next_price(twap, time, max_price(order_book))
                twap_price == avg_price(tw)
            IN  /\ order_book' = book
                /\ twap' = tw
                /\ calls' = Append(calls, <<time, max_price(order_book)>>)
                /\ output' = IF ~isnan(twap_price)
                             THEN Append(output, twap_price)
                             ELSE output
    /\ last_call' = [fn |-> "main", args |-> <<l>>,
                     pre |-> [order_book |-> order_book, twap |-> twap,
                              output |-> output, calls |-> calls]]
    /\ UNCHANGED prev_call

\* One pass of the for loop of main over the line l.
MainLoop(l) ==
    /\ nlines < MaxLines
    /\ nlines' = nlines + 1
    /\ line' = l
    /\ IF \/ l.time = <<>>
          \/ l.operation = <<>>
          \/ l.order_id = <<>>
          \/ (l.operation = <<"I">> /\ l.price = <<>>)
       THEN UNCHANGED <<order_book, twap, output, calls>>      \* continue
       ELSE LET time      == l.time[1]
                operation == l.operation[1]
                order_id  == l.order_id[1]
                book == IF operation = "I"
                        THEN insert_order(order_book, order_id, l.price[1])
                        ELSE IF operation = "E"
                             THEN erase_order(order_book, order_id)
                             ELSE order_book
                tw == next_price(twap, time, max_price(book))
                twap_price == avg_price(tw)
            IN  /\ order_book' = book
                /\ twap' = tw
                /\ calls' = Append(calls, <<time, max_price(book)>>)
                /\ output' = IF ~isnan(twap_price)
                             THEN Append(output, twap_price)
                             ELSE output
    /\ last_call' = [fn |-> "main", args |-> <<l>>,
                     pre |-> [order_book |-> order_book, twap |-> twap,
                              output |-> output, calls |-> calls]]
    /\ UNCHANGED prev_call

Next == \E l \in Lines : MainLoop(l)

Spec == Init /\ [][Next]_vars

\* ================================================================ claims
LiveOrders == DOMAIN order_book.order_price_map_

\* number of live orders whose price is p
OrdersAt(p) ==
    Cardinality({i \in LiveOrders : order_book.order_price_map_[i] = p})

RECURSIVE SumCounts(_)
SumCounts(m) ==
    IF DOMAIN m = {} THEN 0
    ELSE LET k == CHOOSE j \in DOMAIN m : TRUE
         IN  m[k] + SumCounts(MapErase(m, k))

\* C1: after any sequence of insert_order and erase_order calls the counts
\* of the price->count map sum to the number of entries of the order->price
\* map.
C1_CountsSumToOrders ==
    SumCounts(order_book.price_count_map_) = Cardinality(LiveOrders)

\* a duplicate insert has just been ignored while two orders share a price
C1_Witness ==
    /\ last_call.fn = "insert_order"
    /\ last_call.args[1] \in DOMAIN last_call.pre.order_price_map_
    /\ \E p \in DOMAIN order_book.price_count_map_ :
            order_book.price_count_map_[p] >= 2
    /\ Cardinality(DOMAIN order_book.price_count_map_) >= 2

\* C2: a price is a key of the price->count map exactly when a live order
\* has that price, its count is the number of live orders at that price,
\* and no key has a count of zero or less.
C2_CountsMatchOrders ==
    /\ DOMAIN order_book.price_count_map_
            = {order_book.order_price_map_[i] : i \in LiveOrders}
    /\ \A p \in DOMAIN order_book.price_count_map_ :
            /\ order_book.price_count_map_[p] = OrdersAt(p)
            /\ order_book.price_count_map_[p] >= 1
    /\ ~order_book.ub

\* the last order at a price has just been erased, others remain
C2_Witness ==
    /\ last_call.fn = "erase_order"
    /\ last_call.args[1] \in DOMAIN last_call.pre.order_price_map_
    /\ last_call.pre.order_price_map_[last_call.args[1]]
            \notin DOMAIN order_book.price_count_map_
    /\ \E p \in DOMAIN order_book.price_count_map_ :
            order_book.price_count_map_[p] >= 2

\* the example of max_price: prices 10, 12, 11 under ids 1, 2, 3, then
\* erase_order(2)
C3_Example ==
    LET b3 == insert_order(insert_order(insert_order(OrderBook,
                    1, Dbl(10)), 2, Dbl(12)), 3, Dbl(11))
    IN  /\ max_price(b3) = Dbl(12)
        /\ max_price(erase_order(b3, 2)) = Dbl(11)

\* C3: max_price() is NaN exactly when there are no live orders and is
\* otherwise the greatest price of the live orders; inserting 10, 12, 11
\* under distinct ids gives 12 and erasing the order at 12 then gives 11.
C3_MaxPrice ==
    /\ isnan(max_price(order_book)) <=> LiveOrders = {}
    /\ LiveOrders # {} =>
            /\ \E i \in LiveOrders :
                    order_book.order_price_map_[i] = max_price(order_book)
            /\ \A i \in LiveOrders :
                    ~DLess(max_price(order_book), order_book.order_price_map_[i])
    /\ C3_Example

\* the order holding the maximum has just been erased and a lower maximum
\* is left, with an even lower price still live
C3_Witness ==
    /\ last_call.fn = "erase_order"
    /\ LiveOrders # {}
    /\ DLess(max_price(order_book), max_price(last_call.pre))
    /\ \E i \in LiveOrders :
            DLess(order_book.order_price_map_[i], max_price(order_book))

\* C6: erase_order of an id that is not live leaves both maps unchanged and
\* raises no error.
C6_EraseUnknownIsNoOp ==
    (/\ last_call.fn = "erase_order"
     /\ last_call.args[1] \notin DOMAIN last_call.pre.order_price_map_)
    => /\ order_book = last_call.pre
       /\ ~order_book.ub

\* an unknown id has just been erased from a book that holds orders
C6_Witness ==
    /\ last_call.fn = "erase_order"
    /\ last_call.args[1] \notin DOMAIN last_call.pre.order_price_map_
    /\ LiveOrders # {}

\* C7: insert_order of an id that is already live leaves both maps
\* unchanged whatever the price: no count changes, no key is created and
\* the order keeps its price.
C7_InsertDuplicateIsNoOp ==
    (/\ last_call.fn = "insert_order"
     /\ last_call.args[1] \in DOMAIN last_call.pre.order_price_map_)
    => order_book = last_call.pre

\* a live id has just been inserted again with a price that is not its own
\* and that no live order has
C7_Witness ==
    /\ last_call.fn = "insert_order"
    /\ last_call.args[1] \in DOMAIN last_call.pre.order_price_map_
    /\ last_call.args[2] \notin DOMAIN order_book.price_count_map_

\* ---------------------------------------------------------------- TWAP
\* the timestamps of the calls are non-decreasing
NonDecreasing(cs) == \A i \in 1..(Len(cs) - 1) : cs[i][1] <= cs[i + 1][1]

\* sum of t_{i+1} - t_i over the consecutive pairs of cs whose starting
\* price p_i is defined
RECURSIVE SumTime(_)
SumTime(cs) ==
    IF Len(cs) < 2 THEN 0
    ELSE LET n == Len(cs)
         IN  SumTime(SubSeq(cs, 1, n - 1))
             + (IF isnan(cs[n - 1][2]) THEN 0 ELSE cs[n][1] - cs[n - 1][1])

\* sum of p_i * (t_{i+1} - t_i) over the same pairs
RECURSIVE SumPriceTime(_)
SumPriceTime(cs) ==
    IF Len(cs) < 2 THEN Dbl(0)
    ELSE LET n == Len(cs)
         IN  DAdd(SumPriceTime(SubSeq(cs, 1, n - 1)),
                  IF isnan(cs[n - 1][2]) THEN Dbl(0)
                  ELSE DMul(cs[n - 1][2], cs[n][1] - cs[n - 1][1]))

\* C4 as stated: a call made after an earlier observation with a time below
\* last_time leaves the whole accumulator unchanged, whether the recorded
\* last price is defined or undefined.
C4_BackwardTimeDiscarded ==
    (/\ last_call.fn = "next_price"
     /\ Len(calls) >= 2
     /\ last_call.args[1] < last_call.pre.last_time_)
    => twap = last_call.pre

\* the example of three calls: (0,10), (10,20), (30,30)
C5_Example ==
    LET s3 == next_price(next_price(next_price(TWAP,
                    0, Dbl(10)), 10, Dbl(20)), 30, Dbl(30))
    IN  /\ s3.total_time_ = 30
        /\ avg_price(s3) = Rat(10 * 10 + 20 * 20, 30)

\* C5: over calls with non-decreasing timestamps total_time is the sum of
\* the intervals that start with a defined price, and whenever it is
\* positive average * total_time is the sum of price * interval over them;
\* (0,10), (10,20), (30,30) gives total_time 30 and average 500/30.
C5_TimeWeightedAverage ==
    /\ NonDecreasing(calls) =>
            /\ twap.total_time_ = SumTime(calls)
            /\ twap.total_time_ > 0 =>
                    DMul(avg_price(twap), twap.total_time_) = SumPriceTime(calls)
    /\ C5_Example

\* four calls or more at non-decreasing times, one before the last with no
\* price, two intervals of positive length with different prices, the
\* average not a whole number
C5_Witness ==
    /\ Len(calls) >= 4
    /\ NonDecreasing(calls)
    /\ \E i, j \in 1..(Len(calls) - 1) :
            /\ calls[i][1] < calls[i + 1][1] /\ ~isnan(calls[i][2])
            /\ calls[j][1] < calls[j + 1][1] /\ ~isnan(calls[j][2])
            /\ calls[i][2] # calls[j][2]
    /\ \E i \in 1..(Len(calls) - 1) : isnan(calls[i][2])
    /\ ~isnan(avg_price(twap))
    /\ avg_price(twap).den > 1

\* the example with a "no price" interval: (0,10), (10,NaN), (20,20)
C8_Example ==
    LET s2 == next_price(next_price(TWAP, 0, Dbl(10)), 10, NaN)
        s3 == next_price(s2, 20, Dbl(20))
    IN  /\ avg_price(s2) = Dbl(10) /\ s2.total_time_ = 10
        /\ avg_price(s3) = Dbl(10) /\ s3.total_time_ = 10

\* C8: when the recorded last price is undefined the next call leaves the
\* average and total_time unchanged; (0,10), (10,NaN), (20,20) gives
\* average 10 and total_time 10 after the 2nd and after the 3rd call.
C8_NoPriceIntervalHasNoWeight ==
    /\ (/\ last_call.fn = "next_price"
        /\ isnan(last_call.pre.last_price_))
       => /\ avg_price(twap) = avg_price(last_call.pre)
          /\ twap.total_time_ = last_call.pre.total_time_
    /\ C8_Example

\* a defined price has just arrived, later than a stored "no price", on an
\* accumulator that already has an average
C8_Witness ==
    /\ last_call.fn = "next_price"
    /\ Len(calls) >= 3
    /\ isnan(last_call.pre.last_price_)
    /\ ~isnan(last_call.args[2])
    /\ last_call.args[1] > last_call.pre.last_time_
    /\ last_call.pre.total_time_ > 0

\* C9: the first call on a fresh accumulator leaves the average undefined
\* and total_time 0 and records its time and price as the last observation.
C9_FirstCallOnlyRecords ==
    Len(calls) = 1 =>
        /\ isnan(avg_price(twap))
        /\ twap.total_time_ = 0
        /\ twap.last_time_ = calls[1][1]
        /\ twap.last_price_ = calls[1][2]

\* the first call carried a defined price and a positive time
C9_Witness ==
    /\ Len(calls) = 1
    /\ last_call.fn = "next_price"
    /\ ~isnan(twap.last_price_)
    /\ twap.last_time_ > 0

\* C10 as stated: the average is defined only if total_time > 0, and while
\* total_time is 0 main has printed nothing.
C10_AverageNeedsTime ==
    /\ ~isnan(avg_price(twap)) => twap.total_time_ > 0
    /\ twap.total_time_ = 0 => output = <<>>

\* ---------------------------------------------------------------- main
\* the line main processed last
MainLine == last_call.args[1]

\* a line main skips with continue: an extraction it needs failed
Malformed(l) ==
    \/ l.time = <<>>
    \/ l.operation = <<>>
    \/ l.order_id = <<>>
    \/ (l.operation = <<"I">> /\ l.price = <<>>)

\* a line that is malformed or whose operation is neither "I" nor "E"
NotAnEvent(l) == Malformed(l) \/ l.operation \notin {<<"I">>, <<"E">>}

\* C11 as stated: a line that is malformed or whose operation is neither
\* "I" nor "E" changes neither the OrderBook nor the TWAP, causes no
\* next_price call and prints nothing.
C11_BadLineNeverReachesCore ==
    (last_call.fn = "main" /\ NotAnEvent(MainLine))
    => /\ order_book = last_call.pre.order_book
       /\ twap = last_call.pre.twap
       /\ output = last_call.pre.output
       /\ calls = last_call.pre.calls

\* ---------------------------------------------------------------- OrderBook
\* number of orders of the book b at price p, the order id left out
OthersAt(b, id, p) ==
    Cardinality({i \in DOMAIN b.order_price_map_ \ {id} :
                    b.order_price_map_[i] = p})

\* the id is live at price p, the count at p is one more than the number of
\* other live orders at p, and max_price is p or the old maximum above p
AcceptedAsNew(old, id, p) ==
    /\ id \in LiveOrders
    /\ order_book.order_price_map_[id] = p
    /\ p \in DOMAIN order_book.price_count_map_
    /\ order_book.price_count_map_[p] = OthersAt(old, id, p) + 1
    /\ ~DLess(max_price(order_book), p)
    /\ \A i \in DOMAIN old.order_price_map_ \ {id} :
            ~DLess(max_price(order_book), old.order_price_map_[i])
    /\ \/ max_price(order_book) = p
       \/ \E i \in DOMAIN old.order_price_map_ \ {id} :
            max_price(order_book) = old.order_price_map_[i]

\* C12: insert_order(id, p2) after erase_order(id) of a live order is
\* accepted as a new order: id is live with price p2 and not its old price,
\* the count at p2 is incremented and max_price() reflects p2.  The same
\* holds of every insert_order of an id that is not live.
C12_ReinsertAfterErase ==
    /\ (/\ prev_call.fn = "erase_order"
        /\ last_call.fn = "insert_order"
        /\ prev_call.args[1] = last_call.args[1]
        /\ prev_call.args[1] \in DOMAIN prev_call.pre.order_price_map_)
       => AcceptedAsNew(prev_call.pre, last_call.args[1], last_call.args[2])
    /\ (/\ last_call.fn = "insert_order"
        /\ last_call.args[1] \notin DOMAIN last_call.pre.order_price_map_)
       => AcceptedAsNew(last_call.pre, last_call.args[1], last_call.args[2])

\* a live order has just been erased and inserted again under the same id
\* at a higher price, above the other live orders, one of which is at its
\* old price
C12_Witness ==
    /\ prev_call.fn = "erase_order"
    /\ last_call.fn = "insert_order"
    /\ prev_call.args[1] = last_call.args[1]
    /\ prev_call.args[1] \in DOMAIN prev_call.pre.order_price_map_
    /\ DLess(prev_call.pre.order_price_map_[prev_call.args[1]], last_call.args[2])
    /\ prev_call.pre.order_price_map_[prev_call.args[1]]
            \in DOMAIN order_book.price_count_map_
    /\ max_price(order_book) = last_call.args[2]
    /\ order_book.price_count_map_[last_call.args[2]] = 1

\* ---------------------------------------------------------------- TWAP
\* C14: for a call with a defined last price and delta = time - last_time
\* >= 0: if total_time = 0 it sets the average to last_price and total_time
\* to delta; otherwise total_time grows by delta and new average * new
\* total = old average * old total + last_price * delta.
C14_BlendStep ==
    (/\ last_call.fn = "next_price"
     /\ ~isnan(last_call.pre.last_price_)
     /\ last_call.args[1] - last_call.pre.last_time_ >= 0)
    => LET old   == last_call.pre
           delta == last_call.args[1] - old.last_time_
       IN  IF old.total_time_ = 0
           THEN /\ avg_price(twap) = old.last_price_
                /\ twap.total_time_ = delta
           ELSE /\ twap.total_time_ = old.total_time_ + delta
                /\ DMul(avg_price(twap), twap.total_time_)
                     = DAdd(DMul(avg_price(old), old.total_time_),
                            DMul(old.last_price_, delta))

\* a call has just blended a price that differs from the average over an
\* interval whose length differs from the time accumulated before
C14_Witness ==
    /\ last_call.fn = "next_price"
    /\ ~isnan(last_call.pre.last_price_)
    /\ last_call.pre.total_time_ > 0
    /\ last_call.args[1] - last_call.pre.last_time_ > 0
    /\ last_call.args[1] - last_call.pre.last_time_ # last_call.pre.total_time_
    /\ last_call.pre.last_price_ # avg_price(last_call.pre)

\* the call is dropped by the test of line 163: the last price is defined
\* and the time is below last_time_
Discarded(old, time) == ~isnan(old.last_price_) /\ time < old.last_time_

\* C15: after every next_price(time, price) call that is not discarded
\* last_time = time and last_price = price, whether the previous price and
\* the new price are defined or not.
C15_RecordsLastObservation ==
    (/\ last_call.fn = "next_price"
     /\ ~Discarded(last_call.pre, last_call.args[1]))
    => /\ twap.last_time_ = last_call.args[1]
       /\ twap.last_price_ = last_call.args[2]

\* a "no price" call has just followed a stored "no price" at a later time
C15_Witness ==
    /\ last_call.fn = "next_price"
    /\ Len(calls) >= 2
    /\ isnan(last_call.pre.last_price_)
    /\ isnan(last_call.args[2])
    /\ last_call.args[1] > last_call.pre.last_time_
    /\ twap.last_time_ = last_call.args[1]

\* C17 as stated: with every timestamp in 0..MaxTime, total_time never
\* exceeds MaxTime.
C17_TotalTimeWithinSpan == twap.total_time_ <= MaxTime

\* the defined prices of the calls before the last one
EarlierPrices ==
    {calls[i][2] : i \in {j \in 1..(Len(calls) - 1) : ~isnan(calls[j][2])}}

\* C19: whenever the average is defined it lies between the least and the
\* greatest defined price passed to the earlier next_price calls.
C19_AverageWithinPrices ==
    ~isnan(avg_price(twap)) =>
        /\ \E lo \in EarlierPrices : ~DLess(avg_price(twap), lo)
        /\ \E hi \in EarlierPrices : ~DLess(hi, avg_price(twap))

\* the average lies strictly between two prices given earlier
C19_Witness ==
    /\ ~isnan(avg_price(twap))
    /\ \E lo \in EarlierPrices : DLess(lo, avg_price(twap))
    /\ \E hi \in EarlierPrices : DLess(avg_price(twap), hi)

\* ---------------------------------------------------------------- main
\* an insert or erase event: a line main does not skip, with operation "I"
\* or "E"
IsEvent(l) == ~Malformed(l) /\ l.operation \in {<<"I">>, <<"E">>}

\* the order->price map an event leaves, given the map m before it
OrdersAfter(m, l) ==
    IF l.operation = <<"I">>
    THEN IF l.order_id[1] \in DOMAIN m THEN m
         ELSE MapPut(m, l.order_id[1], l.price[1])
    ELSE MapErase(m, l.order_id[1])

\* the greatest price of the live orders of m, NaN when there is none
MaxLivePrice(m) ==
    IF DOMAIN m = {} THEN NaN
    ELSE CHOOSE p \in {m[i] : i \in DOMAIN m} :
            \A i \in DOMAIN m : ~DLess(p, m[i])

\* C16: for every insert or erase event, no-ops on the OrderBook included,
\* main updates the OrderBook first, then makes exactly one next_price call
\* with the event's time and the maximum price of the orders live after the
\* event, and prints a value exactly when the average read afterwards is
\* defined.
C16_EventPipeline ==
    (last_call.fn = "main" /\ IsEvent(MainLine))
    => LET old  == last_call.pre
           time == MainLine.time[1]
           live == OrdersAfter(old.order_book.order_price_map_, MainLine)
       IN  /\ order_book.order_price_map_ = live
           /\ calls = Append(old.calls, <<time, MaxLivePrice(live)>>)
           /\ twap = next_price(old.twap, time, MaxLivePrice(live))
           /\ IF isnan(avg_price(twap))
              THEN output = old.output
              ELSE output = Append(old.output, avg_price(twap))

\* an erase of an id that is not live has just been processed on a book
\* that holds orders, at a later time, and a value was printed for it
C16_Witness ==
    /\ last_call.fn = "main"
    /\ MainLine.operation = <<"E">>
    /\ MainLine.order_id # <<>>
    /\ MainLine.order_id[1] \notin DOMAIN last_call.pre.order_book.order_price_map_
    /\ LiveOrders # {}
    /\ MainLine.time[1] > last_call.pre.twap.last_time_
    /\ Len(output) = Len(last_call.pre.output) + 1

\* C18: once the average is defined it stays defined after every later
\* next_price call, whatever the time and the price, so from the first
\* printed value on main prints one value for every line that reaches
\* next_price.
C18_AverageStaysDefined ==
    /\ (last_call.fn = "main" /\ ~isnan(avg_price(last_call.pre.twap)))
       => /\ ~isnan(avg_price(twap))
          /\ ~Malformed(MainLine) =>
                output = Append(last_call.pre.output, avg_price(twap))
    /\ ~isnan(avg_price(twap)) =>
            \A time \in Times, price \in SignalPrices :
                ~isnan(avg_price(next_price(twap, time, price)))
    /\ output # <<>> => ~isnan(avg_price(twap))

\* a value was printed before, the book was empty so the last price was
\* undefined, and the line processed last printed one more value
C18_Witness ==
    /\ last_call.fn = "main"
    /\ last_call.pre.output # <<>>
    /\ isnan(last_call.pre.twap.last_price_)
    /\ IsEvent(MainLine)
    /\ Len(output) = Len(last_call.pre.output) + 1

\* ---------------------------------------------------------------- OrderBook
\* C20: from any reachable state S, insert_order(id, p) of an id that is
\* not live in S followed by erase_order(id) restores S: both maps and
\* max_price() are as before the insert.
C20_InsertThenEraseRestores ==
    (/\ prev_call.fn = "insert_order"
     /\ last_call.fn = "erase_order"
     /\ prev_call.args[1] = last_call.args[1]
     /\ prev_call.args[1] \notin DOMAIN prev_call.pre.order_price_map_)
    => /\ order_book.order_price_map_ = prev_call.pre.order_price_map_
       /\ order_book.price_count_map_ = prev_call.pre.price_count_map_
       /\ order_book = prev_call.pre
       /\ max_price(order_book) = max_price(prev_call.pre)

\* a new order was inserted above the maximum of a book that holds orders
\* and has just been erased again
C20_Witness ==
    /\ prev_call.fn = "insert_order"
    /\ last_call.fn = "erase_order"
    /\ prev_call.args[1] = last_call.args[1]
    /\ prev_call.args[1] \notin DOMAIN prev_call.pre.order_price_map_
    /\ DOMAIN prev_call.pre.order_price_map_ # {}
    /\ DLess(max_price(prev_call.pre), max_price(last_call.pre))
    /\ max_price(last_call.pre) = prev_call.args[2]

====
